---------------------------- MODULE Spec2Model ----------------------------
(***************************************************************************)
(* Model of the users/posts HTTP service of src/index.js.                  *)
(*                                                                         *)
(* The state is the two collections (users, posts), the handlers that are  *)
(* suspended at an `await` (inflight), and the last response sent (resp).  *)
(* Every database call is one atomic step; the synchronous code of a       *)
(* handler that runs after a call resolves is part of that step.           *)
(*                                                                         *)
(* Text is a sequence of one-character strings.  A JSON value of a request *)
(* is a record [type, n, s].                                               *)
(***************************************************************************)
EXTENDS Integers, Sequences, FiniteSets, TLC

VARIABLES users, posts, inflight, resp, nextUser, nextPost, submitted

vars == <<users, posts, inflight, resp, nextUser, nextPost, submitted>>

(***************************************************************************)
(* Bounds of the model.                                                    *)
(***************************************************************************)
MaxUsers == 2      \* User documents ever constructed
MaxPosts == 1      \* Post documents ever constructed
MaxInFlight == 2   \* handlers suspended at an await at the same time

Slots == 1..MaxInFlight

(***************************************************************************)
(* JSON values of request bodies and query strings.                        *)
(***************************************************************************)
Undefined == [type |-> "undefined", n |-> 0, s |-> <<>>]
JNum(k) == [type |-> "number", n |-> k, s |-> <<>>]
JStr(t) == [type |-> "string", n |-> 0, s |-> t]

Digits == <<"0", "1", "2", "3", "4", "5", "6", "7", "8", "9">>

DigitVal(c) == (CHOOSE i \in 1..10 : Digits[i] = c) - 1

IsNumeric(t) == Len(t) > 0 /\ \A i \in 1..Len(t) : \E j \in 1..10 : Digits[j] = t[i]

\* Number("12"): the decimal value of a string of digits
RECURSIVE ParseDigits(_)
ParseDigits(t) ==
    IF t = <<>> THEN 0
    ELSE 10 * ParseDigits(SubSeq(t, 1, Len(t) - 1)) + DigitVal(t[Len(t)])

(***************************************************************************)
(* ObjectId: a document id is a number here; its string form is 24 hex     *)
(* digits, lower case.  Casting a string to an ObjectId accepts 24 hex     *)
(* digits of either case and fails (CastError) on the other strings of     *)
(* this model (none of them has 12 characters).                            *)
(***************************************************************************)
ObjectIdHexLen == 24

\* the ids the driver generates: users from 10 on, posts from 1 on
UserOids == {10 + i : i \in 0..(MaxUsers - 1)}
PostOids == {1 + i : i \in 0..(MaxPosts - 1)}

HexDigits == <<"0", "1", "2", "3", "4", "5", "6", "7", "8", "9",
               "a", "b", "c", "d", "e", "f">>
HexUpper == <<"0", "1", "2", "3", "4", "5", "6", "7", "8", "9",
              "A", "B", "C", "D", "E", "F">>

HexChars == {HexDigits[i] : i \in 1..16} \cup {HexUpper[i] : i \in 1..16}

HexValue ==
    [c \in HexChars |-> (CHOOSE i \in 1..16 : HexDigits[i] = c \/ HexUpper[i] = c) - 1]

IsHexChar(c) == c \in HexChars

HexVal(c) == HexValue[c]

RECURSIVE HexOf(_, _)
HexOf(k, len) ==
    IF len = 0 THEN <<>>
    ELSE Append(HexOf(k \div 16, len - 1), HexDigits[(k % 16) + 1])

\* the string form of every id of the model, computed once
ObjectIdText == [o \in UserOids \cup PostOids |-> HexOf(o, ObjectIdHexLen)]

\* ObjectId.prototype.toString()
toString(oid) == ObjectIdText[oid]

\* the same digits in upper case: another spelling of the same ObjectId
UpperHexOf(oid) ==
    [i \in 1..ObjectIdHexLen |-> HexUpper[HexVal(toString(oid)[i]) + 1]]

\* the value of the first len hex digits of t
RECURSIVE ParseHex(_, _)
ParseHex(t, len) ==
    IF len = 0 THEN 0
    ELSE 16 * ParseHex(t, len - 1) + HexVal(t[len])

Malformed == JStr(<<"z", "z">>)

\* id strings a client may send for a user: each id in lower case, the first
\* one also in upper case, and a string that is no ObjectId
UserIdStrings ==
    {JStr(toString(o)) : o \in UserOids} \cup {JStr(UpperHexOf(10)), Malformed}

PostIdStrings == {JStr(toString(o)) : o \in PostOids} \cup {Malformed}

\* whether the JSON value is the text of an ObjectId
IsObjectIdText(v) ==
    /\ v.type = "string"
    /\ Len(v.s) = ObjectIdHexLen
    /\ \A i \in 1..Len(v.s) : IsHexChar(v.s[i])

\* the cast of every id value a request of the model carries, computed once
CastResult ==
    [v \in UserIdStrings \cup PostIdStrings \cup {Undefined} |->
        [ok |-> IsObjectIdText(v),
         oid |-> IF IsObjectIdText(v) THEN ParseHex(v.s, Len(v.s)) ELSE 0]]

\* whether mongoose can cast the JSON value to an ObjectId
CanCastObjectId(v) == CastResult[v].ok

CastObjectId(v) == CastResult[v].oid

(***************************************************************************)
(* Joi validation (default options: convert is on, unknown keys are        *)
(* rejected; the bodies of this model carry the schema's keys only, a      *)
(* missing key being Undefined).                                           *)
(***************************************************************************)
JoiString(v) == v.type = "string" /\ v.s # <<>>

\* Joi.string().email(): one "@", a local part, a domain of two segments or more
IsEmail(t) ==
    \E i \in 2..(Len(t) - 3) :
      /\ t[i] = "@"
      /\ \A j \in 1..Len(t) : t[j] = "@" => j = i
      /\ \E d \in (i + 2)..(Len(t) - 1) : t[d] = "."
      /\ t[i + 1] # "." /\ t[Len(t)] # "."

JoiEmail(v) == JoiString(v) /\ IsEmail(v.s)

\* Joi.number().integer().min(0): a number, or a string that converts to one
JoiAge(v) ==
    \/ v.type = "number" /\ v.n >= 0
    \/ v.type = "string" /\ IsNumeric(v.s)

userValidationSchema(b) ==
    /\ JoiString(b.userName)
    /\ JoiEmail(b.email)
    /\ JoiString(b.password)
    /\ JoiAge(b.age)
    /\ JoiString(b.gender)
    /\ JoiString(b.phone)

postValidationSchema(b) ==
    /\ JoiString(b.title)
    /\ JoiString(b.content)
    /\ JoiString(b.userID)

(***************************************************************************)
(* Mongoose documents.                                                     *)
(***************************************************************************)
\* SchemaNumber cast: a number stays, a numeric string becomes its value
CastNumber(v) == IF v.type = "number" THEN v.n ELSE ParseDigits(v.s)

\* a cast that stores the phone as the gender and the gender as the phone
NewUser_Swapped(oid, b) ==
    [_id |-> oid, userName |-> b.userName.s, email |-> b.email.s,
     password |-> b.password.s, age |-> CastNumber(b.age),
     gender |-> b.phone.s, phone |-> b.gender.s]

\* new User(req.body) with a generated _id
NewUser(oid, b) ==
    [_id |-> oid, userName |-> b.userName.s, email |-> b.email.s,
     password |-> b.password.s, age |-> CastNumber(b.age),
     gender |-> b.gender.s, phone |-> b.phone.s]

\* new Post(req.body) with a generated _id and the default date, Date.now, read
\* off a clock that advances with every post constructed
NewPost(oid, b, date) ==
    [_id |-> oid, title |-> b.title.s, content |-> b.content.s,
     userID |-> CastObjectId(b.userID), date |-> date]

(***************************************************************************)
(* Request inputs.                                                         *)
(***************************************************************************)
Al == <<"A", "l">>
Bo == <<"B", "o">>

\* one address per user index: 0@x.io, 1@x.io, ...
Mail(i) == <<Digits[i + 1], "@", "x", ".", "i", "o">>

UserBody(name, email, password, age) ==
    [userName |-> name, email |-> email, password |-> password, age |-> age,
     gender |-> JStr(<<"f">>), phone |-> JStr(<<"5">>)]

\* a valid body with the address of index i
OwnerBody(i) == UserBody(JStr(Al), JStr(Mail(i)), JStr(<<"p">>), JNum(1))

\* bodies for signup and update: one valid body per address, two more valid
\* bodies that reuse the first two addresses (one with its age as a numeric
\* string), and three bodies that fail validation
UserBodies ==
    {OwnerBody(i) : i \in 0..(MaxUsers - 1)} \cup
    { UserBody(JStr(Bo), JStr(Mail(0)), JStr(<<"q">>), JNum(2)),
      UserBody(JStr(Bo), JStr(Mail(1)), JStr(<<"p">>), JStr(<<"2">>)),
      UserBody(JStr(Al), JStr(Mail(1)), JStr(<<"p">>), JNum(-1)),
      UserBody(JStr(Al), JStr(<<"a", "x">>), JStr(<<"p">>), JNum(1)),
      UserBody(JStr(Al), Undefined, JStr(<<"p">>), JNum(1)) }

PostBodies ==
    [title : {JStr(<<"t">>), JStr(<<"u">>)}, content : {JStr(<<"c">>)},
     userID : UserIdStrings \cup {Undefined}]

\* posts are created with the first title; an update may send either
CreateBodies == {b \in PostBodies : b.title = JStr(<<"t">>)}

\* the body of DELETE /api/posts/:id: only its userID is read
DeleteBodies == [userID : UserIdStrings \cup {Undefined}]

\* the decimal text of a number, as a client writes it in a query string
RECURSIVE Decimal(_)
Decimal(k) ==
    IF k < 10 THEN <<Digits[k + 1]>>
    ELSE Append(Decimal(k \div 10), Digits[(k % 10) + 1])

\* ages of stored users and of query bounds: one digit and two digits
Ages == {2, 9, 10}

AgeQueries == {JStr(Decimal(a)) : a \in Ages}

Prefixes == {<<>>, <<"A">>, <<"a", "l">>, <<"B">>, <<".">>}

\* the nameStartsWith parameter: a text, or absent
NameQueries == {JStr(x) : x \in Prefixes} \cup {Undefined}

Names == {Al, <<"a", "L">>, Bo}

(***************************************************************************)
(* Handlers suspended at an await, and responses.                          *)
(***************************************************************************)
Idle == [pc |-> "idle"]

HasFreeSlot == \E s \in Slots : inflight[s] = Idle

FreeSlot == CHOOSE s \in Slots : inflight[s] = Idle /\ \A r \in Slots : inflight[r] = Idle => s <= r

Suspend(k) == inflight' = [inflight EXCEPT ![FreeSlot] = k]

Resume(s) == inflight' = [inflight EXCEPT ![s] = Idle]

\* res.status(status).send(payload); a payload is the set of documents sent
Respond(op, status, payload) ==
    resp' = [op |-> op, status |-> status, payload |-> payload]

Init ==
    /\ users = {}
    /\ posts = {}
    /\ inflight = [s \in Slots |-> Idle]
    /\ resp = [op |-> "none", status |-> 0, payload |-> {}]
    /\ nextUser = 0
    /\ nextPost = 0
    /\ submitted = << >>

\* history: drop a user from the record of bodies submitted at signup
Forget(oid) == [o \in (DOMAIN submitted) \ {oid} |-> submitted[o]]

(***************************************************************************)
(* The unique index on User.email.                                         *)
(***************************************************************************)
\* the schema without `unique: true`
DuplicateKey_NoIndex(email, self) == FALSE

DuplicateKey(email, self) == \E u \in users : u.email = email /\ u._id # self

(***************************************************************************)
(* User handlers.                                                          *)
(***************************************************************************)
\* POST /api/users/signup up to `await user.save()`
Signup(b) ==
    IF ~userValidationSchema(b) THEN
        /\ Respond("signup", 400, {})
        /\ UNCHANGED <<users, posts, inflight, nextUser, nextPost, submitted>>
    ELSE IF \E u \in users : u.email = b.email.s THEN
        /\ Respond("signup", 400, {})
        /\ UNCHANGED <<users, posts, inflight, nextUser, nextPost, submitted>>
    ELSE
        /\ nextUser < MaxUsers
        /\ HasFreeSlot
        /\ Suspend([pc |-> "signupSave", doc |-> NewUser(10 + nextUser, b), body |-> b])
        /\ nextUser' = nextUser + 1
        /\ UNCHANGED <<users, posts, resp, nextPost, submitted>>

\* user.save() and the response of signup
SignupSave(s) ==
    /\ inflight[s].pc = "signupSave"
    /\ Resume(s)
    /\ LET doc == inflight[s].doc IN
       IF DuplicateKey(doc.email, doc._id) THEN
           /\ Respond("signup", 500, {})
           /\ UNCHANGED <<users, submitted>>
       ELSE
           /\ users' = users \cup {doc}
           /\ submitted' = [o \in DOMAIN submitted \cup {doc._id} |->
                               IF o = doc._id THEN inflight[s].body ELSE submitted[o]]
           /\ Respond("signup", 200, {doc})
    /\ UNCHANGED <<posts, nextUser, nextPost>>

\* PUT /api/users/:id
UserUpdate(id, b) ==
    /\ UNCHANGED <<posts, inflight, nextUser, nextPost>>
    /\ IF ~userValidationSchema(b) THEN
           Respond("userUpdate", 400, {}) /\ UNCHANGED <<users, submitted>>
       ELSE IF ~CanCastObjectId(id) THEN
           Respond("userUpdate", 500, {}) /\ UNCHANGED <<users, submitted>>
       ELSE IF ~\E u \in users : u._id = CastObjectId(id) THEN
           Respond("userUpdate", 404, {}) /\ UNCHANGED <<users, submitted>>
       ELSE IF DuplicateKey(b.email.s, CastObjectId(id)) THEN
           Respond("userUpdate", 500, {}) /\ UNCHANGED <<users, submitted>>
       ELSE
           LET doc == NewUser(CastObjectId(id), b) IN
           /\ users' = {u \in users : u._id # doc._id} \cup {doc}
           /\ submitted' = Forget(doc._id)
           /\ Respond("userUpdate", 200, {doc})

\* DELETE /api/users/:id
UserDelete(id) ==
    /\ UNCHANGED <<posts, inflight, nextUser, nextPost>>
    /\ IF ~CanCastObjectId(id) THEN
           Respond("userDelete", 500, {}) /\ UNCHANGED <<users, submitted>>
       ELSE IF ~\E u \in users : u._id = CastObjectId(id) THEN
           Respond("userDelete", 404, {}) /\ UNCHANGED <<users, submitted>>
       ELSE
           /\ users' = {u \in users : u._id # CastObjectId(id)}
           /\ submitted' = Forget(CastObjectId(id))
           /\ Respond("userDelete", 200, {u \in users : u._id = CastObjectId(id)})

\* GET /api/users
UserList ==
    /\ Respond("userList", 200, users)
    /\ UNCHANGED <<users, posts, inflight, nextUser, nextPost, submitted>>

\* GET /api/users/:id/profile up to the second findById
Profile(id) ==
    /\ UNCHANGED <<users, posts, nextUser, nextPost, submitted>>
    /\ IF ~CanCastObjectId(id) THEN
           Respond("profile", 500, {}) /\ UNCHANGED inflight
       ELSE IF ~\E u \in users : u._id = CastObjectId(id) THEN
           Respond("profile", 404, {}) /\ UNCHANGED inflight
       ELSE
           /\ HasFreeSlot
           /\ Suspend([pc |-> "populate", oid |-> CastObjectId(id)])
           /\ UNCHANGED resp

\* findById(id).populate('posts') and the response: userSchema has no path
\* `posts`, the document comes back as stored (nothing is sent when it is gone)
ProfilePopulate(s) ==
    /\ inflight[s].pc = "populate"
    /\ Resume(s)
    /\ Respond("profile", 200, {u \in users : u._id = inflight[s].oid})
    /\ UNCHANGED <<users, posts, nextUser, nextPost, submitted>>

(***************************************************************************)
(* The two search handlers.  Query parameters are strings (or absent).     *)
(***************************************************************************)
UpperLetters == <<"A", "B", "L", "O">>
LowerLetters == <<"a", "b", "l", "o">>

\* case folding of the letters of this model; other characters fold to themselves
ToLower(c) ==
    IF \E i \in 1..Len(UpperLetters) : UpperLetters[i] = c
    THEN LowerLetters[CHOOSE i \in 1..Len(UpperLetters) : UpperLetters[i] = c]
    ELSE c

\* `${v}`: the text a template literal makes of a query parameter
TemplateText(v) ==
    IF v.type = "undefined"
    THEN <<"u", "n", "d", "e", "f", "i", "n", "e", "d">>
    ELSE v.s

\* new RegExp('^' + src, 'i') tested on name, for a source made of letters and
\* ".": a letter matches itself in either case, "." matches any character
RegexTest(src, name) ==
    /\ Len(src) <= Len(name)
    /\ \A i \in 1..Len(src) : src[i] = "." \/ ToLower(src[i]) = ToLower(name[i])

\* a comparison that takes `age >= minAge` for `age > minAge`
AgeInRange_Exclusive(age, minAge, maxAge) ==
    CastNumber(minAge) < age /\ age <= CastNumber(maxAge)

\* age: { $gte: minAge, $lte: maxAge }, the bounds cast by the schema's Number
AgeInRange(age, minAge, maxAge) ==
    CastNumber(minAge) <= age /\ age <= CastNumber(maxAge)

\* age: { $lt: maxAge }
AgeBelow(age, maxAge) == age < CastNumber(maxAge)

\* GET /api/users/search?nameStartsWith&maxAge
UserSearch(nameStartsWith, maxAge) ==
    /\ Respond("userSearch", 200,
               {u \in users : /\ RegexTest(TemplateText(nameStartsWith), u.userName)
                              /\ AgeBelow(u.age, maxAge)})
    /\ UNCHANGED <<users, posts, inflight, nextUser, nextPost, submitted>>

\* GET /api/users/search/age?minAge&maxAge
UserSearchAge(minAge, maxAge) ==
    /\ Respond("userSearchAge", 200, {u \in users : AgeInRange(u.age, minAge, maxAge)})
    /\ UNCHANGED <<users, posts, inflight, nextUser, nextPost, submitted>>

(***************************************************************************)
(* Post handlers.                                                          *)
(***************************************************************************)
\* a handler without the ownership check
NotOwner_Never(post, b) == FALSE

\* an ownership check that compares ObjectIds: post.userID.equals(req.body.userID)
NotOwner_ByObjectId(post, b) ==
    ~(CanCastObjectId(b.userID) /\ CastObjectId(b.userID) = post.userID)

\* post.userID.toString() !== req.body.userID
NotOwner(post, b) == JStr(toString(post.userID)) # b.userID

\* the post found by Post.findById(oid)
PostById(oid) == CHOOSE p \in posts : p._id = oid

\* POST /api/posts up to `await post.save()`
PostCreate(b) ==
    /\ UNCHANGED <<users, posts, nextUser, submitted>>
    /\ IF ~postValidationSchema(b) THEN
           Respond("postCreate", 400, {}) /\ UNCHANGED <<inflight, nextPost>>
       ELSE IF ~CanCastObjectId(b.userID) THEN
           Respond("postCreate", 500, {}) /\ UNCHANGED <<inflight, nextPost>>
       ELSE IF ~\E u \in users : u._id = CastObjectId(b.userID) THEN
           Respond("postCreate", 404, {}) /\ UNCHANGED <<inflight, nextPost>>
       ELSE
           /\ nextPost < MaxPosts
           /\ HasFreeSlot
           /\ Suspend([pc |-> "postSave", doc |-> NewPost(1 + nextPost, b, nextPost)])
           /\ nextPost' = nextPost + 1
           /\ UNCHANGED resp

\* post.save() of a new post and the response
PostSave(s) ==
    /\ inflight[s].pc = "postSave"
    /\ Resume(s)
    /\ posts' = posts \cup {inflight[s].doc}
    /\ Respond("postCreate", 200, {inflight[s].doc})
    /\ UNCHANGED <<users, nextUser, nextPost, submitted>>

\* DELETE /api/posts/:id up to `await post.remove()`
PostDelete(id, b) ==
    /\ IF ~CanCastObjectId(id) THEN
           Respond("postDelete", 500, {}) /\ UNCHANGED inflight
       ELSE IF ~\E p \in posts : p._id = CastObjectId(id) THEN
           Respond("postDelete", 404, {}) /\ UNCHANGED inflight
       ELSE IF NotOwner(PostById(CastObjectId(id)), b) THEN
           Respond("postDelete", 403, {}) /\ UNCHANGED inflight
       ELSE
           /\ HasFreeSlot
           /\ Suspend([pc |-> "postRemove", doc |-> PostById(CastObjectId(id))])
           /\ UNCHANGED resp
    /\ UNCHANGED <<users, posts, nextUser, nextPost, submitted>>

\* post.remove() and the response
PostRemove(s) ==
    /\ inflight[s].pc = "postRemove"
    /\ Resume(s)
    /\ posts' = {p \in posts : p._id # inflight[s].doc._id}
    /\ Respond("postDelete", 200, {inflight[s].doc})
    /\ UNCHANGED <<users, nextUser, nextPost, submitted>>

\* post.set(req.body): the paths of the body, cast by postSchema.  A userID
\* that is no ObjectId leaves the path unset and the document invalid.
PostSet(post, b) ==
    [post EXCEPT !.title = b.title.s, !.content = b.content.s,
                 !.userID = IF CanCastObjectId(b.userID)
                            THEN CastObjectId(b.userID) ELSE -1]

\* the paths post.set marked modified
Modified(old, new) == {f \in {"title", "content", "userID"} : old[f] # new[f]}

\* PUT /api/posts/:id up to `await post.save()`
PostUpdate(id, b) ==
    /\ IF ~postValidationSchema(b) THEN
           Respond("postUpdate", 400, {}) /\ UNCHANGED inflight
       ELSE IF ~CanCastObjectId(id) THEN
           Respond("postUpdate", 500, {}) /\ UNCHANGED inflight
       ELSE IF ~\E p \in posts : p._id = CastObjectId(id) THEN
           Respond("postUpdate", 404, {}) /\ UNCHANGED inflight
       ELSE IF NotOwner(PostById(CastObjectId(id)), b) THEN
           Respond("postUpdate", 403, {}) /\ UNCHANGED inflight
       ELSE
           /\ HasFreeSlot
           /\ Suspend([pc |-> "postUpdateSave",
                       old |-> PostById(CastObjectId(id)),
                       doc |-> PostSet(PostById(CastObjectId(id)), b)])
           /\ UNCHANGED resp
    /\ UNCHANGED <<users, posts, nextUser, nextPost, submitted>>

\* post.save() of a changed post and the response: only the modified paths are
\* written; a save with nothing modified writes nothing; the save of an invalid
\* document, or of one that is no longer stored, fails
PostUpdateSave(s) ==
    /\ inflight[s].pc = "postUpdateSave"
    /\ Resume(s)
    /\ UNCHANGED <<users, nextUser, nextPost, submitted>>
    /\ LET old == inflight[s].old
           doc == inflight[s].doc
           mod == Modified(old, doc)
       IN  IF doc.userID = -1 THEN
               Respond("postUpdate", 500, {}) /\ UNCHANGED posts
           ELSE IF mod = {} THEN
               Respond("postUpdate", 200, {doc}) /\ UNCHANGED posts
           ELSE IF ~\E p \in posts : p._id = doc._id THEN
               Respond("postUpdate", 500, {}) /\ UNCHANGED posts
           ELSE
               /\ posts' = {IF p._id = doc._id
                            THEN [f \in DOMAIN p |-> IF f \in mod THEN doc[f] ELSE p[f]]
                            ELSE p : p \in posts}
               /\ Respond("postUpdate", 200, {doc})

\* GET /api/posts
PostList ==
    /\ Respond("postList", 200, posts)
    /\ UNCHANGED <<users, posts, inflight, nextUser, nextPost, submitted>>

Next ==
    \/ \E b \in UserBodies : Signup(b)
    \/ \E s \in Slots : SignupSave(s)
    \/ \E id \in UserIdStrings, b \in UserBodies : UserUpdate(id, b)
    \/ \E id \in UserIdStrings : UserDelete(id)
    \/ UserList
    \/ \E id \in UserIdStrings : Profile(id)
    \/ \E s \in Slots : ProfilePopulate(s)
    \/ \E b \in CreateBodies : PostCreate(b)
    \/ \E s \in Slots : PostSave(s)
    \/ \E id \in PostIdStrings, b \in DeleteBodies : PostDelete(id, b)
    \/ \E s \in Slots : PostRemove(s)
    \/ \E id \in PostIdStrings, b \in PostBodies : PostUpdate(id, b)
    \/ \E s \in Slots : PostUpdateSave(s)
    \/ PostList
    \/ \E n \in NameQueries, m \in AgeQueries : UserSearch(n, m)
    \/ \E lo \in AgeQueries, hi \in AgeQueries : UserSearchAge(lo, hi)

Spec == Init /\ [][Next]_vars

(***************************************************************************)
(* The user handlers alone: no post handler reads or writes `users`.       *)
(***************************************************************************)
NextUsers ==
    \/ \E b \in UserBodies : Signup(b)
    \/ \E s \in Slots : SignupSave(s)
    \/ \E id \in UserIdStrings, b \in UserBodies : UserUpdate(id, b)
    \/ \E id \in UserIdStrings : UserDelete(id)
    \/ UserList
    \/ \E id \in UserIdStrings : Profile(id)
    \/ \E s \in Slots : ProfilePopulate(s)

SpecUsers == Init /\ [][NextUsers]_vars

(***************************************************************************)
(* The post handlers, started after MaxUsers signups have been answered    *)
(* 200, with the one user handler that changes which users exist from      *)
(* then on (delete: an update changes neither an _id nor the set of users, *)
(* and the post handlers read nothing of a user but its _id).              *)
(***************************************************************************)
InitPosts ==
    /\ users = {NewUser(10 + i, OwnerBody(i)) : i \in 0..(MaxUsers - 1)}
    /\ posts = {}
    /\ inflight = [s \in Slots |-> Idle]
    /\ resp = [op |-> "signup", status |-> 200,
               payload |-> {NewUser(10 + (MaxUsers - 1), OwnerBody(MaxUsers - 1))}]
    /\ nextUser = MaxUsers
    /\ nextPost = 0
    /\ submitted = [o \in UserOids |-> OwnerBody(o - 10)]

NextPosts ==
    \/ \E id \in UserIdStrings : UserDelete(id)
    \/ \E b \in CreateBodies : PostCreate(b)
    \/ \E s \in Slots : PostSave(s)
    \/ \E id \in PostIdStrings, b \in DeleteBodies : PostDelete(id, b)
    \/ \E s \in Slots : PostRemove(s)
    \/ \E id \in PostIdStrings, b \in PostBodies : PostUpdate(id, b)
    \/ \E s \in Slots : PostUpdateSave(s)
    \/ PostList

SpecPosts == InitPosts /\ [][NextPosts]_vars

(***************************************************************************)
(* Properties of the user handlers (checked under SpecUsers).              *)
(***************************************************************************)
EmailInUse(email) == \E u \in users : u.email = email

\* a record created by a signup, and not updated since, holds the email
HeldBySignup(email) == \E o \in DOMAIN submitted : submitted[o].email.s = email

\* C1: in every reachable state no two distinct User records have the same
\* email, whatever the interleaving of signups, updates and deletes
C1_UniqueEmail == \A u, v \in users : u._id # v._id => u.email # v.email

\* C1 witness: a record holds an email and the save of a concurrent signup
\* with that email has been rejected by the unique index
C1_Witness ==
    /\ resp.op = "signup" /\ resp.status = 500
    /\ users # {}

\* C2: a signup with a valid body that is answered while a record created by
\* another signup holds its email is answered 400 and adds no record
C2_SecondSignup400 ==
    [][ /\ \A b \in UserBodies :
             (Signup(b) /\ userValidationSchema(b) /\ HeldBySignup(b.email.s))
                 => (resp'.status = 400 /\ users' = users)
        /\ \A s \in Slots :
             (SignupSave(s) /\ HeldBySignup(inflight[s].doc.email))
                 => (resp'.status = 400 /\ users' = users) ]_vars

\* the stored record d equals the submitted body b field by field, as JSON
SameAsSubmitted(d, b) ==
    /\ JStr(d.userName) = b.userName
    /\ JStr(d.email) = b.email
    /\ JStr(d.password) = b.password
    /\ JNum(d.age) = b.age
    /\ JStr(d.gender) = b.gender
    /\ JStr(d.phone) = b.phone

\* the same, the age being the number the submitted age converts to
SameAsConverted(d, b) ==
    /\ JStr(d.userName) = b.userName
    /\ JStr(d.email) = b.email
    /\ JStr(d.password) = b.password
    /\ d.age = (IF b.age.type = "string" THEN ParseDigits(b.age.s) ELSE b.age.n)
    /\ JStr(d.gender) = b.gender
    /\ JStr(d.phone) = b.phone

\* the comparison of a stored record with a submitted body, in either reading
Same(reading, d, b) ==
    IF reading = "equal" THEN SameAsSubmitted(d, b) ELSE SameAsConverted(d, b)

\* a step of the round trip: a signup with a valid body and an email that no
\* record holds at that step is not refused, and its save is answered 200 with
\* the record; the list, and the profile of a user no update or delete has
\* targeted since its signup, send a record that is the Same as the body
RoundTripStep(reading) ==
    /\ \A b \in UserBodies :
         (Signup(b) /\ userValidationSchema(b) /\ ~EmailInUse(b.email.s))
             => resp' = resp
    /\ \A s \in Slots :
         (SignupSave(s) /\ ~EmailInUse(inflight[s].doc.email))
             => /\ resp'.status = 200
                /\ \E d \in users' : /\ d._id = inflight[s].doc._id
                                     /\ Same(reading, d, inflight[s].body)
                                     /\ resp'.payload = {d}
    /\ UserList
         => \A o \in DOMAIN submitted :
              \E d \in resp'.payload : d._id = o /\ Same(reading, d, submitted[o])
    /\ \A id \in UserIdStrings :
         (Profile(id) /\ CanCastObjectId(id) /\ CastObjectId(id) \in DOMAIN submitted)
             => resp' = resp
    /\ \A s \in Slots :
         (ProfilePopulate(s) /\ inflight[s].oid \in DOMAIN submitted)
             => /\ resp'.status = 200
                /\ \E d \in resp'.payload : /\ d._id = inflight[s].oid
                                            /\ Same(reading, d, submitted[inflight[s].oid])

SearchUser(i, name, age) ==
    NewUser(10 + i, UserBody(JStr(name), JStr(Mail(i)), JStr(<<"p">>), JNum(age)))

\* one choice per id: whether a record is stored, and its name and age
SearchCollections ==
    { UNION { IF pick[i][1] THEN {SearchUser(i, pick[i][2], pick[i][3])} ELSE {}
              : i \in 0..(MaxUsers - 1) }
      : pick \in [0..(MaxUsers - 1) -> BOOLEAN \X Names \X Ages] }

InitSearch ==
    /\ users \in SearchCollections
    /\ posts = {}
    /\ inflight = [s \in Slots |-> Idle]
    /\ resp = [op |-> "none", status |-> 0, payload |-> {}]
    /\ nextUser = MaxUsers
    /\ nextPost = 0
    /\ submitted = << >>

NextSearch ==
    \/ \E n \in NameQueries, m \in AgeQueries : UserSearch(n, m)
    \/ \E lo \in AgeQueries, hi \in AgeQueries : UserSearchAge(lo, hi)

SpecSearch == InitSearch /\ [][NextSearch]_vars

(***************************************************************************)
(* Properties of the search handlers (checked under SpecSearch).           *)
(***************************************************************************)
\* name starts with prefix, letter case ignored
StartsWithIgnoreCase(name, prefix) ==
    /\ Len(prefix) <= Len(name)
    /\ \A i \in 1..Len(prefix) : ToLower(name[i]) = ToLower(prefix[i])

\* C6: for all numbers minAge and maxAge the age search sends exactly the users
\* u with minAge <= u.age <= maxAge
C6_AgeRangeExact ==
    [][\A lo \in Ages, hi \in Ages :
          UserSearchAge(JStr(Decimal(lo)), JStr(Decimal(hi)))
              => resp'.payload = {u \in users : lo <= u.age /\ u.age <= hi}]_vars

\* C6 witness: an age search has sent some users and left some out
C6_Witness ==
    /\ resp.op = "userSearchAge" /\ resp.status = 200
    /\ resp.payload # {} /\ resp.payload # users

\* C7: for every text nameStartsWith and every number maxAge the search sends
\* exactly the users whose userName starts with the text, case ignored, and
\* whose age is strictly less than maxAge
C7_PrefixSearchExact ==
    [][\A x \in Prefixes, hi \in Ages :
          UserSearch(JStr(x), JStr(Decimal(hi)))
              => resp'.payload =
                   {u \in users : StartsWithIgnoreCase(u.userName, x) /\ u.age < hi}]_vars

\* C8: with nameStartsWith empty or absent no user is left out because of its
\* userName: every user younger than maxAge is sent
C8_EmptyOrAbsentMatchesAll ==
    [][\A n \in {JStr(<<>>), Undefined}, hi \in Ages :
          UserSearch(n, JStr(Decimal(hi)))
              => \A u \in users : u.age < hi => u \in resp'.payload]_vars

(***************************************************************************)
(* Properties of the post handlers (checked under SpecPosts).              *)
(***************************************************************************)
\* the id string v names the stored document with _id oid
NamesId(v, oid) == CanCastObjectId(v) /\ CastObjectId(v) = oid

\* C3: a POST /api/posts whose body passes validation and whose userID names
\* no existing user is answered 404 and leaves the posts as they were
C3_UnknownUser404 ==
    [][\A b \in CreateBodies :
          (PostCreate(b) /\ postValidationSchema(b)
                         /\ ~\E u \in users : NamesId(b.userID, u._id))
              => (resp'.status = 404 /\ posts' = posts)]_vars

\* C4: a DELETE, or a PUT with a valid body, of an existing post whose body
\* userID differs from the text of the post's userID is answered 403 and
\* leaves every post as it was
C4_NotOwner403 ==
    [][\A p \in posts :
         \A id \in {i \in PostIdStrings : NamesId(i, p._id)} :
            /\ \A b \in {d \in DeleteBodies : d.userID # JStr(toString(p.userID))} :
                  PostDelete(id, b) => (resp'.status = 403 /\ posts' = posts)
            /\ \A b \in {d \in PostBodies : /\ postValidationSchema(d)
                                            /\ d.userID # JStr(toString(p.userID))} :
                  PostUpdate(id, b) => (resp'.status = 403 /\ posts' = posts)]_vars

\* C4 witness: a request on a stored post has been answered 403
C4_Witness ==
    /\ resp.op \in {"postDelete", "postUpdate"} /\ resp.status = 403
    /\ posts # {}

\* C5: at the step that persists a new post, a user whose id is the post's
\* userID is stored
C5_OwnerExistsAtSave ==
    [][\A s \in Slots :
          PostSave(s) => \E u \in users : u._id = inflight[s].doc.userID]_vars

\* C10: a post keeps the userID (and the date) it was created with for as long
\* as it is stored: a step changes at most its title and content
C10_OwnerNeverChanges ==
    [][\A p \in posts : \A q \in posts' :
          q._id = p._id => (q.userID = p.userID /\ q.date = p.date)]_vars

\* C10 witness: a PUT has been answered 200 and the post now has the second
\* title, which no post is created with
C10_Witness ==
    /\ resp.op = "postUpdate" /\ resp.status = 200
    /\ \E p \in posts : p.title = <<"u">> /\ p \in resp.payload

=============================================================================
